---- MODULE Spec2Model ----
(***************************************************************************)
(* Model of the signal-generation core of the repository:                  *)
(*   src/trading/ai_agent.py   AIAgent (the indicator engine)              *)
(*   src/trading_signals.py    ProfessionalTradingStrategy (backfill and   *)
(*                             feed loop), generate_signals (one cycle),   *)
(*                             main (the prompt / decision loop)           *)
(*                                                                         *)
(* Prices are integers in an arbitrary price unit.  A moving average is    *)
(* the exact rational <<sum, count>>; a confidence is the exact rational   *)
(* <<numerator, denominator>>; take_profit is held in 1/100 of the price   *)
(* unit, so that price * 1.05 is price * 105 and price * 0.95 is           *)
(* price * 95.                                                             *)
(***************************************************************************)
EXTENDS Integers, Sequences, FiniteSets, TLC

VARIABLES
    \* ---- main() of trading_signals.py
    main_pc,            \* position of the main loop
    cycles,             \* number of generate_signals() calls started so far
    main_pending,       \* pending_trades of the strategy object built by main()
    signals,            \* value returned by the last asyncio.run(generate_signals())
    stdout,             \* the JSON lines printed in this iteration of the loop
    log_errors,         \* the logging.error messages of this iteration
    response,           \* the decision line read by input() in this iteration
    decided,            \* history: the ids reported as trade_skipped on a skip decision
    broker_calls,       \* history: number of place_order calls made
    saved_results,      \* history: the type of each record save_results has written
    save_raised,        \* history: the last call of save_results raised
    \* ---- generate_signals(): the cycle coroutine and its strategy object
    cyc_pc,             \* position of the cycle coroutine
    prices,             \* strategy.prices
    pending_trades,     \* strategy.pending_trades of the cycle's strategy
    recommendation,     \* the recommendation obtained at line 116
    rec_snapshot,       \* history: ai_agent.prices when it was obtained
    \* ---- AIAgent
    short_window,
    long_window,
    ai_prices,          \* ai_agent.prices
    \* ---- process_websocket_message(): the feed task
    feed_pc,            \* position of the feed task
    reconnect_attempts, \* its local counter
    websocket,          \* state of the connection held by `async with`
    connects,           \* history: websockets.connect calls of this task
    subscribes,         \* history: subscribe messages sent on the current connection
    last_msg,           \* history: the frame the last recv() returned on the
                        \* connection the task holds or has just lost
    live_ticks          \* history: prices appended by the feed task in this cycle

vars == <<main_pc, cycles, main_pending, signals, stdout, log_errors, response,
          decided, broker_calls, saved_results, save_raised, cyc_pc, prices, pending_trades, recommendation,
          rec_snapshot, short_window, long_window, ai_prices, feed_pc,
          reconnect_attempts, websocket, connects, subscribes,
          last_msg, live_ticks>>

mainVars  == <<main_pc, cycles, main_pending, signals, stdout, log_errors,
               response, decided, broker_calls, saved_results, save_raised>>
cycleVars == <<cyc_pc, prices, pending_trades, recommendation, rec_snapshot>>
agentVars == <<short_window, long_window, ai_prices>>
feedVars  == <<feed_pc, reconnect_attempts, websocket, connects, subscribes, last_msg, live_ticks>>

(***************************************************************************)
(* Program constants and bounds of the model                               *)
(***************************************************************************)
MAX_RECONNECT_ATTEMPTS == 5

\* scaled-down stand-ins for AIAgent's defaults (50, 200) and the 250 mock
\* prices of the backfill; the code's relation short < long <= backfill is kept
ShortWindow == 1
LongWindow  == 2
BackfillLen == 2

MaxPrice  == 2      \* prices range over 1..MaxPrice
MaxTicks  == 1      \* live ticks appended per cycle
MaxCycles == 2      \* cycles run by main()
MaxWin    == 4      \* windows of a free-standing AIAgent range over 0..MaxWin
MaxLen    == 4      \* length of the series of a free-standing AIAgent
MaxAgentPrice == 3  \* its prices range over 1..MaxAgentPrice
MaxSaves  == 3      \* records written by save_results called on its own

PriceVals == 1..MaxPrice
Windows   == 0..MaxWin
AgentPriceVals == 1..MaxAgentPrice

\* Python's None is the empty tuple and a present value x is <<x>>; a moving
\* average or a confidence that is present is the pair <<numerator, denominator>>
None == <<>>
Some(x) == <<x>>

(***************************************************************************)
(* AIAgent (src/trading/ai_agent.py)                                       *)
(***************************************************************************)
RECURSIVE SeqSum(_)
SeqSum(s) == IF s = <<>> THEN 0 ELSE s[1] + SeqSum(Tail(s))

\* the Python slice s[-window:] for window >= 0; s[-0:] is the whole list
SliceLast(s, window) ==
    IF window = 0 \/ window >= Len(s) THEN s
    ELSE SubSeq(s, Len(s) - window + 1, Len(s))

\* np.mean of a non-empty list, as the exact rational <<sum, count>>
Mean(s) == <<SeqSum(s), Len(s)>>

\* lines 13-15, averaging the whole list whatever the window
calculate_moving_average_all(ps, window) ==
    IF Len(ps) < window THEN None
    ELSE Mean(ps)

\* lines 13-15, averaging the first `window` prices instead of the last
calculate_moving_average_first(ps, window) ==
    IF Len(ps) < window THEN None
    ELSE Mean(SubSeq(ps, 1, IF window = 0 THEN Len(ps) ELSE window))

calculate_moving_average(ps, window) ==
    IF Len(ps) < window THEN None
    ELSE Mean(SliceLast(ps, window))

\* comparison of two rationals with positive denominators
RatLT(a, b) == a[1] * b[2] < b[1] * a[2]
\* line 55, the comparison reversed
RatGTReversed(a, b) == RatLT(a, b)
RatGT(a, b) == RatLT(b, a)
RatMin(a, b) == IF RatLT(b, a) THEN b ELSE a
RatMax(a, b) == IF RatLT(a, b) THEN b ELSE a

Abs(x) == IF x < 0 THEN -x ELSE x

\* abs(short_ma - long_ma) / long_ma, for long_ma > 0
MaDiff(short_ma, long_ma) ==
    <<Abs(short_ma[1] * long_ma[2] - long_ma[1] * short_ma[2]),
      short_ma[2] * long_ma[1]>>

RatAdd(a, b) == <<a[1] * b[2] + b[1] * a[2], a[2] * b[2]>>

\* line 44 without the upper clamp: max(0.5, 0.7 + ma_diff)
ConfidenceUnclamped(ma_diff) ==
    RatMax(<<50, 100>>, RatAdd(<<70, 100>>, ma_diff))

\* min(0.95, max(0.5, 0.7 + ma_diff))
Confidence(ma_diff) ==
    RatMin(<<95, 100>>, RatMax(<<50, 100>>, RatAdd(<<70, 100>>, ma_diff)))

ZeroConfidence == <<0, 1>>

Rec(action, reasoning, entry, tp, conf) ==
    [action |-> action, reasoning |-> reasoning, entry_price |-> entry,
     take_profit |-> tp, confidence |-> conf]

\* the exception a list index out of range raises at lines 33-34
IndexError == Rec("IndexError", "list index out of range", None, None, None)

NoRec == Rec("none", "", None, None, None)

\* line 23, with the comparison off by one
InsufficientDataOffByOne(ps, lw) == Len(ps) < lw - 1

\* line 23: fewer prices than the long window
InsufficientData(ps, lw) == Len(ps) < lw

get_recommendation(ps, sw, lw) ==
    IF InsufficientData(ps, lw)
    THEN Rec("hold", "Insufficient data for prediction", None, None, ZeroConfidence)
    ELSE IF Len(ps) < 2
    THEN IndexError
    ELSE
      LET current_price == ps[Len(ps)]
          prev_price    == ps[Len(ps) - 1]
          short_ma      == calculate_moving_average(ps, sw)
          long_ma       == calculate_moving_average(ps, lw)
      IN  IF short_ma = None \/ long_ma = None
          THEN Rec("hold", "Error calculating moving averages", None, None,
                   ZeroConfidence)
          ELSE
            LET confidence == Confidence(MaDiff(short_ma, long_ma))
            IN  IF RatGT(short_ma, long_ma) /\ current_price > prev_price
                THEN Rec("buy", "Short-term MA above long-term MA, price increasing",
                         Some(current_price), Some(current_price * 105), confidence)
                ELSE IF RatLT(short_ma, long_ma) /\ current_price < prev_price
                THEN Rec("sell", "Short-term MA below long-term MA, price decreasing",
                         Some(current_price), Some(current_price * 95), confidence)
                ELSE Rec("hold", "No clear trend detected", None, None, confidence)

\* lines 21-80 trimming self.prices to the last long_window entries
prices_after_recommendation_trimmed(ps, lw) == SliceLast(ps, lw)

\* what a call of get_recommendation leaves in self.prices: lines 21-80 only
\* read the list
prices_after_recommendation(ps, lw) == ps

\* lines 96-98 answering from the series as it was one price earlier, as if
\* a tick had been appended while the query was being computed
get_ai_recommendation_stale(ps, sw, lw) ==
    get_recommendation(SubSeq(ps, 1, Len(ps) - 1), sw, lw)

\* ProfessionalTradingStrategy.get_ai_recommendation (trading_signals.py,
\* lines 96-98): one synchronous call, with no await in it or in
\* get_recommendation
get_ai_recommendation(ps, sw, lw) == get_recommendation(ps, sw, lw)

\* line 19 on a list kept to a fixed length: the oldest price is dropped
add_price_sliding(ps, price) ==
    IF ps = <<>> THEN <<price>> ELSE Append(Tail(ps), price)

\* line 19, inserting at the front of the list instead of appending
add_price_front(ps, price) == <<price>> \o ps

\* line 19 executed twice for one price
add_price_twice(ps, price) == Append(Append(ps, price), price)

add_price(ps, price) == Append(ps, price)

\* the loop of lines 57-58 stopping one price early
AddAllButLast(ps, hist) == ps \o SubSeq(hist, 1, Len(hist) - 1)

\* `for price in hist: add_price(price)`
RECURSIVE AddAll(_, _)
AddAll(ps, hist) ==
    IF hist = <<>> THEN ps ELSE AddAll(add_price(ps, Head(hist)), Tail(hist))

(***************************************************************************)
(* Initial state of the program: main() has built its strategy object      *)
(* (line 166) and is at the top of its loop; no cycle has run.             *)
(***************************************************************************)
NoTrade == [id |-> 0, type |-> "none", entry_price |-> None, take_profit |-> None,
            confidence |-> None, reasoning |-> ""]

NoSignal == [type |-> "none", trade |-> NoTrade, message |-> ""]

NoMessage == [kind |-> "none", price |-> 0]

NoResponse == [kind |-> "none", decision |-> "missing", id |-> 0, repeat |-> FALSE,
               outcome |-> "none"]

\* ProfessionalTradingStrategy.__init__ of the cycle's strategy and the
\* local state of a feed task that has not been created
FreshStrategy ==
    /\ prices = <<>>
    /\ pending_trades = {}
    /\ ai_prices = <<>>
    /\ recommendation = NoRec
    /\ rec_snapshot = <<>>
    /\ feed_pc = "none"
    /\ reconnect_attempts = 0
    /\ websocket = "none"
    /\ connects = 0
    /\ subscribes = 0
    /\ last_msg = NoMessage
    /\ live_ticks = 0

Init ==
    /\ main_pc = "loop"
    /\ cycles = 0
    /\ main_pending = {}
    /\ signals = NoSignal
    /\ stdout = <<>>
    /\ log_errors = {}
    /\ response = NoResponse
    /\ decided = {}
    /\ broker_calls = 0
    /\ saved_results = <<>>
    /\ save_raised = FALSE
    /\ cyc_pc = "idle"
    /\ short_window = ShortWindow
    /\ long_window = LongWindow
    /\ FreshStrategy

(***************************************************************************)
(* generate_signals (src/trading_signals.py, lines 101-146)                *)
(***************************************************************************)
\* main(), line 170: asyncio.run(generate_signals()) starts a cycle, which
\* builds a new strategy object (line 103); the variables of the cycle hold
\* the values of a new object already, at the start and since the previous
\* asyncio.run returned
MainRunCycle ==
    /\ main_pc = "loop"
    /\ cycles < MaxCycles
    /\ main_pc' = "running"
    /\ cycles' = cycles + 1
    /\ cyc_pc' = "start"
    /\ signals' = NoSignal
    /\ stdout' = <<>>
    /\ log_errors' = {}
    /\ response' = NoResponse
    /\ UNCHANGED <<main_pending, decided, broker_calls, saved_results, save_raised, prices, pending_trades,
                   recommendation, rec_snapshot, agentVars, feedVars>>

ErrorSignal == [type |-> "error", trade |-> NoTrade,
                message |-> "Failed to fetch historical data"]

\* lines 59-62, the except clause returning True as well
fetch_returns_true(raised) == TRUE

\* lines 59-62: what fetch_historical_data returns, True at the end of its
\* try block and False from its except clause
fetch_returns(raised) == ~raised

\* lines 104-113: on a failed backfill generate_signals returns the error
\* result at once; otherwise it creates the feed task and suspends in
\* asyncio.sleep(1)
AfterBackfill(success) ==
    IF ~success
    THEN /\ signals' = ErrorSignal
         /\ cyc_pc' = "done"
         /\ UNCHANGED feedVars
    ELSE /\ feed_pc' = "created"
         /\ cyc_pc' = "warmup"
         /\ UNCHANGED <<signals, reconnect_attempts, websocket, connects,
                        subscribes, last_msg, live_ticks>>

\* fetch_historical_data returns True: the mock series is stored and every
\* price of it is added to the agent
CycleBackfillOk ==
    /\ cyc_pc = "start"
    /\ \E hist \in [1..BackfillLen -> PriceVals] :
         /\ prices' = hist
         /\ ai_prices' = AddAll(ai_prices, hist)
    /\ AfterBackfill(fetch_returns(FALSE))
    /\ UNCHANGED <<main_pc, cycles, main_pending, stdout, log_errors, response,
                   decided, broker_calls, saved_results, save_raised, pending_trades, recommendation,
                   rec_snapshot, short_window, long_window>>

\* fetch_historical_data returns False: an exception was raised in its try
\* block, either while the list was built (nothing stored) or in the
\* add_price loop after k prices; the cycle returns the error result
CycleBackfillFail ==
    /\ cyc_pc = "start"
    /\ \/ UNCHANGED <<prices, ai_prices>>
       \/ \E hist \in [1..BackfillLen -> PriceVals], k \in 0..(BackfillLen - 1) :
            /\ prices' = hist
            /\ ai_prices' = AddAll(ai_prices, SubSeq(hist, 1, k))
    /\ log_errors' = log_errors \cup {"Error fetching historical data"}
    /\ AfterBackfill(fetch_returns(TRUE))
    /\ UNCHANGED <<main_pc, cycles, main_pending, stdout, response, decided,
                   broker_calls, saved_results, save_raised, pending_trades, recommendation, rec_snapshot,
                   short_window, long_window>>

\* lines 132-137: the trade_prompt result
TradePromptSignal(trade) == [type |-> "trade_prompt", trade |-> trade, message |-> ""]

\* lines 141-146, returning nothing
NoTradeSignalMissing(rec) == NoSignal

\* lines 141-146: the no_trade result, carrying the reasoning
NoTradeSignal(rec) == [type |-> "no_trade", trade |-> NoTrade,
                       message |-> rec.reasoning]

\* lines 119-130 with entry_price and take_profit taken from each other's key
MakeTradeSwapped(trade_id, rec) ==
    [id |-> trade_id,
     type |-> IF rec.action = "buy" THEN "BUY" ELSE "SELL",
     entry_price |-> rec.take_profit,
     take_profit |-> rec.entry_price,
     confidence |-> rec.confidence,
     reasoning |-> rec.reasoning]

\* lines 119-130: the trade built from a buy or sell recommendation
MakeTrade(trade_id, rec) ==
    [id |-> trade_id,
     type |-> IF rec.action = "buy" THEN "BUY" ELSE "SELL",
     entry_price |-> rec.entry_price,
     take_profit |-> rec.take_profit,
     confidence |-> rec.confidence,
     reasoning |-> rec.reasoning]

\* lines 116-139: after the warm-up sleep the agent is queried once; a buy or
\* sell stores the trade in the cycle's strategy and returns trade_prompt, a
\* hold goes on to await the feed task.  An exception raised by the query
\* leaves the coroutine ("raised").  The feed task has taken its first step
\* by then (it is scheduled before the one-second timer fires).
\* uuid4 is modelled by the number of the cycle.
CycleRecommend ==
    /\ cyc_pc = "warmup"
    /\ feed_pc # "created"
    /\ LET rec == get_ai_recommendation(ai_prices, short_window, long_window)
           trade == MakeTrade(cycles, rec)
       IN  /\ rec_snapshot' = ai_prices
           /\ IF rec.action = "IndexError"
              THEN /\ cyc_pc' = "raised"
                   /\ UNCHANGED <<recommendation, pending_trades, signals>>
              ELSE /\ recommendation' = rec
                   /\ IF rec.action \in {"buy", "sell"}
                      THEN /\ pending_trades' = pending_trades \cup {trade}
                           /\ signals' = TradePromptSignal(trade)
                           /\ cyc_pc' = "done"
                      ELSE /\ cyc_pc' = "await_feed"
                           /\ UNCHANGED <<pending_trades, signals>>
    /\ ai_prices' = prices_after_recommendation(ai_prices, long_window)
    /\ UNCHANGED <<main_pc, cycles, main_pending, stdout, log_errors, response,
                   decided, broker_calls, saved_results, save_raised, prices,
                   short_window, long_window, feedVars>>

\* lines 139-146 with a second query of the agent after the feed task ended
CycleNoTradeRequery ==
    /\ cyc_pc = "await_feed"
    /\ feed_pc = "returned"
    /\ LET rec == get_ai_recommendation(ai_prices, short_window, long_window)
       IN  /\ recommendation' = rec
           /\ signals' = NoTradeSignal(rec)
    /\ rec_snapshot' = ai_prices
    /\ cyc_pc' = "done"
    /\ UNCHANGED <<main_pc, cycles, main_pending, stdout, log_errors, response,
                   decided, broker_calls, saved_results, save_raised, prices, pending_trades,
                   agentVars, feedVars>>

\* lines 139-146: `await websocket_task` completes when the feed task has
\* returned; the cycle then returns no_trade with the reasoning obtained
\* at line 116
CycleNoTrade ==
    /\ cyc_pc = "await_feed"
    /\ feed_pc = "returned"
    /\ signals' = NoTradeSignal(recommendation)
    /\ cyc_pc' = "done"
    /\ UNCHANGED <<main_pc, cycles, main_pending, stdout, log_errors, response,
                   decided, broker_calls, saved_results, save_raised, prices, pending_trades, recommendation,
                   rec_snapshot, agentVars, feedVars>>

(***************************************************************************)
(* ProfessionalTradingStrategy.process_websocket_message (lines 64-95)     *)
(* The task suspends at websockets.connect, websocket.send,                *)
(* websocket.recv and asyncio.sleep; feed_pc names the await it is at.     *)
(***************************************************************************)
\* line 68, with <= for <
LoopConditionInclusive(attempts) == attempts <= MAX_RECONNECT_ATTEMPTS

\* line 68: the condition of the outer while loop
LoopCondition(attempts) == attempts < MAX_RECONNECT_ATTEMPTS

\* lines 68-70 with lines 94-95 replaced by one more delay: the loop never
\* returns
LoopTopNoReturn(attempts) ==
    IF LoopCondition(attempts)
    THEN /\ feed_pc' = "connecting"
         /\ connects' = connects + 1
         /\ UNCHANGED log_errors
    ELSE /\ feed_pc' = "delay"
         /\ UNCHANGED <<log_errors, connects>>

\* lines 68-70 and 94-95: the top of the outer loop, either the next
\* websockets.connect or the final `return False`
LoopTop(attempts) ==
    IF LoopCondition(attempts)
    THEN /\ feed_pc' = "connecting"
         /\ connects' = connects + 1
         /\ UNCHANGED log_errors
    ELSE /\ feed_pc' = "returned"
         /\ log_errors' = log_errors \cup {"Max reconnection attempts reached"}
         /\ UNCHANGED connects

\* lines 89-92: `except Exception`, entered from any await inside the try;
\* leaving `async with` closes a connection that was open
ExceptClause ==
    /\ log_errors' = log_errors \cup {"WebSocket error"}
    /\ reconnect_attempts' = reconnect_attempts + 1
    /\ websocket' = IF websocket = "open" THEN "closed" ELSE websocket
    /\ feed_pc' = "delay"

\* the inbound frames: text that is not JSON, a JSON number, an object with
\* no "result", an object whose "result" is not an object, a result with no
\* "price", a result whose "price" is not numeric, a result with a numeric
\* price (negative, zero or positive)
Messages ==
    [kind : {"not_json", "json_number", "no_result", "result_not_dict",
             "price_missing", "price_non_numeric"}, price : {0}]
    \cup [kind : {"price"}, price : (-1)..MaxPrice]

\* lines 82-87 without the test of line 85: every numeric price is appended
HandleMessageAnyPrice(msg) ==
    IF msg.kind \in {"not_json", "json_number", "price_non_numeric"}
    THEN [outcome |-> "raise", price |-> 0]
    ELSE IF msg.kind \in {"no_result", "result_not_dict"}
    THEN [outcome |-> "ignore", price |-> 0]
    ELSE [outcome |-> "append",
          price |-> IF msg.kind = "price_missing" THEN 0 ELSE msg.price]

\* lines 82-87 applied to one frame: "raise" when json.loads, the `in` test
\* or float() raises, "append" with the price when price > 0, else "ignore"
HandleMessage(msg) ==
    IF msg.kind \in {"not_json", "json_number", "price_non_numeric"}
    THEN [outcome |-> "raise", price |-> 0]
    ELSE IF msg.kind \in {"no_result", "result_not_dict"}
    THEN [outcome |-> "ignore", price |-> 0]
    ELSE LET price == IF msg.kind = "price_missing" THEN 0 ELSE msg.price
         IN  IF price > 0
             THEN [outcome |-> "append", price |-> price]
             ELSE [outcome |-> "ignore", price |-> 0]

\* line 66 and the first pass through line 68: the first step of the task
FeedStart ==
    /\ feed_pc = "created"
    /\ reconnect_attempts' = 0
    /\ LoopTop(0)
    /\ UNCHANGED <<main_pc, cycles, main_pending, signals, stdout, response,
                   decided, broker_calls, saved_results, save_raised, cycleVars, agentVars, websocket,
                   subscribes, last_msg, live_ticks>>

\* lines 70-78: the connection is established; the task goes on to send
FeedConnectOk ==
    /\ feed_pc = "connecting"
    /\ websocket' = "open"
    /\ subscribes' = 0
    /\ feed_pc' = "sending"
    /\ UNCHANGED <<mainVars, cycleVars, agentVars, reconnect_attempts, connects,
                   last_msg, live_ticks>>

\* line 70 raises: the connection could not be established
FeedConnectFail ==
    /\ feed_pc = "connecting"
    /\ ExceptClause
    /\ UNCHANGED <<main_pc, cycles, main_pending, signals, stdout, response,
                   decided, broker_calls, saved_results, save_raised, cycleVars, agentVars, connects,
                   subscribes, last_msg, live_ticks>>

\* lines 72-81 without the send of line 78: the task goes on to recv
FeedSendSkipped ==
    /\ feed_pc = "sending"
    /\ feed_pc' = "receiving"
    /\ UNCHANGED <<mainVars, cycleVars, agentVars, reconnect_attempts, websocket,
                   connects, subscribes, last_msg, live_ticks>>

\* line 78: the subscribe message is sent; the task goes on to recv
FeedSendOk ==
    /\ feed_pc = "sending"
    /\ subscribes' = subscribes + 1
    /\ feed_pc' = "receiving"
    /\ UNCHANGED <<mainVars, cycleVars, agentVars, reconnect_attempts, websocket,
                   connects, last_msg, live_ticks>>

\* line 78 raises: the connection was lost before the send completed
FeedSendFail ==
    /\ feed_pc = "sending"
    /\ ExceptClause
    /\ UNCHANGED <<main_pc, cycles, main_pending, signals, stdout, response,
                   decided, broker_calls, saved_results, save_raised, cycleVars, agentVars, connects,
                   subscribes, last_msg, live_ticks>>

\* lines 81-87: recv returns the frame msg, which is parsed and handled
FeedRecvMsg(msg) ==
    /\ feed_pc = "receiving"
    /\ last_msg' = msg
    /\ LET h == HandleMessage(msg)
       IN  \/ /\ h.outcome = "append"
              /\ live_ticks < MaxTicks
              /\ prices' = Append(prices, h.price)
              /\ ai_prices' = add_price(ai_prices, h.price)
              /\ live_ticks' = live_ticks + 1
              /\ UNCHANGED <<feed_pc, reconnect_attempts, websocket, log_errors>>
           \/ /\ h.outcome = "ignore"
              /\ UNCHANGED <<prices, ai_prices, live_ticks, feed_pc,
                             reconnect_attempts, websocket, log_errors>>
           \/ /\ h.outcome = "raise"
              /\ ExceptClause
              /\ UNCHANGED <<prices, ai_prices, live_ticks>>
    /\ UNCHANGED <<main_pc, cycles, main_pending, signals, stdout, response,
                   decided, broker_calls, saved_results, save_raised, cyc_pc, pending_trades, recommendation,
                   rec_snapshot, short_window, long_window, connects, subscribes>>

FeedRecv == \E msg \in Messages : FeedRecvMsg(msg)

\* line 81 raises: the connection was closed or failed while receiving
FeedTransportError ==
    /\ feed_pc = "receiving"
    /\ ExceptClause
    /\ UNCHANGED <<main_pc, cycles, main_pending, signals, stdout, response,
                   decided, broker_calls, saved_results, save_raised, cycleVars, agentVars, connects,
                   subscribes, last_msg, live_ticks>>

\* line 92 completes: the reconnect delay is over, back to line 68
FeedDelayDone ==
    /\ feed_pc = "delay"
    /\ LoopTop(reconnect_attempts)
    /\ last_msg' = NoMessage
    /\ UNCHANGED <<main_pc, cycles, main_pending, signals, stdout, response,
                   decided, broker_calls, saved_results, save_raised, cycleVars, agentVars,
                   reconnect_attempts, websocket, subscribes, live_ticks>>

Suspended == {"connecting", "sending", "receiving", "delay"}

\* the cancellation caught by `except Exception` (lines 89-92), as a
\* transport error would be
FeedCancelCaught ==
    /\ cyc_pc \in {"done", "raised"}
    /\ feed_pc \in {"connecting", "sending", "receiving", "delay"}
    /\ ExceptClause
    /\ UNCHANGED <<main_pc, cycles, main_pending, signals, stdout, response,
                   decided, broker_calls, saved_results, save_raised, cycleVars, agentVars, connects,
                   subscribes, last_msg, live_ticks>>

\* asyncio.run (line 170) cancels the tasks still pending when the cycle
\* coroutine has returned: CancelledError is raised at the await the task is
\* suspended in; it is not an Exception, so the except clause is passed by and
\* `async with` closes the connection
FeedCancel ==
    /\ cyc_pc \in {"done", "raised"}
    /\ feed_pc \in Suspended
    /\ feed_pc' = "cancelled"
    /\ websocket' = IF websocket = "open" THEN "closed" ELSE websocket
    /\ UNCHANGED <<mainVars, cycleVars, agentVars, reconnect_attempts, connects,
                   subscribes, last_msg, live_ticks>>

(***************************************************************************)
(* main (src/trading_signals.py, lines 164-196)                            *)
(***************************************************************************)
Finished == {"none", "returned", "cancelled"}

\* lines 169-196 without the except clauses: the exception leaves main()
main_after_error_uncaught == "terminated"

\* lines 189-192 and 194-196: where main() is once an except clause of its
\* loop has caught and logged an exception: in a time.sleep inside the
\* `while True` body
main_after_error == "sleep"

\* lines 170-173 and 194-196: asyncio.run returns once the cycle coroutine is
\* done and no task is pending; the result is printed, and a trade_prompt goes
\* on to input(), any other result to time.sleep(10).  An exception that left
\* the coroutine is caught by the outer except clause, which logs it and sleeps.
\* The strategy object of the cycle and the feed task do not outlive
\* asyncio.run: only the returned value is left.
MainPrint ==
    /\ main_pc = "running"
    /\ cyc_pc \in {"done", "raised"}
    /\ feed_pc \in Finished
    /\ IF cyc_pc = "raised"
       THEN /\ log_errors' = log_errors \cup {"Error in main loop"}
            /\ main_pc' = main_after_error
            /\ UNCHANGED stdout
       ELSE /\ stdout' = Append(stdout, [type |-> signals.type,
                                         trade_id |-> signals.trade.id])
            /\ main_pc' = IF signals.type = "trade_prompt" THEN "input" ELSE "sleep"
            /\ UNCHANGED log_errors
    /\ cyc_pc' = "idle"
    /\ prices' = <<>>
    /\ pending_trades' = {}
    /\ ai_prices' = <<>>
    /\ recommendation' = NoRec
    /\ rec_snapshot' = <<>>
    /\ feed_pc' = "none"
    /\ reconnect_attempts' = 0
    /\ websocket' = "none"
    /\ connects' = 0
    /\ subscribes' = 0
    /\ last_msg' = NoMessage
    /\ live_ticks' = 0
    /\ UNCHANGED <<cycles, main_pending, signals, response, decided,
                   broker_calls, saved_results, save_raised, short_window, long_window>>

\* the lines input() can return: end of input (EOFError), text that is not
\* JSON, JSON that is not an object, and an object with a "decision" (accept,
\* skip, absent or another value) and an "id" (0: absent or never issued)
Responses ==
    [kind : {"eof", "not_json", "not_dict"}, decision : {"missing"}, id : {0}]
    \cup [kind : {"dict"}, decision : {"accept", "skip", "missing", "other"},
          id : 0..MaxCycles]

\* lines 175-190 with the test of line 176 always true: every decision
\* takes the branch of line 177
HandleResponseAlwaysAccept(r) == "raise"

\* lines 175-190 with an else branch that accepts "skip" only and raises
\* on a missing or unknown decision
HandleResponseStrict(r) ==
    IF r.kind = "dict" /\ r.decision = "skip" THEN "skipped" ELSE "raise"

\* lines 175-190 applied to one line.  "raise": the inner except clause is
\* entered, by input(), json.loads or response.get raising, or by line 177:
\* ProfessionalTradingStrategy (lines 43-99) defines no execute_trade, so an
\* accept raises AttributeError before anything is executed or printed.
\* "skipped": the else branch prints trade_skipped.
HandleResponse(r) ==
    IF r.kind # "dict" THEN "raise"
    ELSE IF r.decision = "accept" THEN "raise"
    ELSE "skipped"

\* lines 174-190: one decision line is read and handled
MainDecision ==
    /\ main_pc = "input"
    /\ \E r \in Responses :
         LET o == HandleResponse(r)
         IN  /\ response' = [kind |-> r.kind, decision |-> r.decision, id |-> r.id,
                             repeat |-> /\ r.kind = "dict"
                                        /\ r.decision \in {"accept", "skip"}
                                        /\ r.id \in decided,
                             outcome |-> o]
             /\ decided' = IF o = "skipped" /\ r.decision = "skip" /\ r.id \in 1..cycles
                            THEN decided \cup {r.id}
                            ELSE decided
             /\ \/ /\ o = "raise"
                   /\ log_errors' = log_errors \cup {"Error processing trade response"}
                   /\ main_pc' = main_after_error
                   /\ UNCHANGED stdout
                \/ /\ o = "skipped"
                   /\ stdout' = Append(stdout, [type |-> "trade_skipped",
                                                trade_id |-> r.id])
                   /\ main_pc' = "sleep"
                   /\ UNCHANGED log_errors
    /\ UNCHANGED <<cycles, main_pending, signals, broker_calls, saved_results, save_raised, cycleVars,
                   agentVars, feedVars>>

\* line 192: time.sleep(10), then the next iteration of `while True`
MainSleep ==
    /\ main_pc = "sleep"
    /\ main_pc' = "loop"
    /\ UNCHANGED <<cycles, main_pending, signals, stdout, log_errors, response,
                   decided, broker_calls, saved_results, save_raised, cycleVars, agentVars, feedVars>>

Next ==
    \/ MainRunCycle
    \/ CycleBackfillOk
    \/ CycleBackfillFail
    \/ FeedStart
    \/ FeedConnectOk
    \/ FeedConnectFail
    \/ FeedSendOk
    \/ FeedSendFail
    \/ FeedRecv
    \/ FeedTransportError
    \/ FeedDelayDone
    \/ CycleRecommend
    \/ CycleNoTrade
    \/ FeedCancel
    \/ MainPrint
    \/ MainDecision
    \/ MainSleep

Spec == Init /\ [][Next]_vars

\* The steps the program takes by itself: the event loop runs a task that is
\* ready, a timer (asyncio.sleep, time.sleep) fires, and websockets.connect
\* and send complete or fail within their timeouts.  What arrives on the
\* connection, whether it breaks, and what the operator types are left to the
\* environment.
ProgramStep ==
    \/ MainRunCycle
    \/ CycleBackfillOk
    \/ CycleBackfillFail
    \/ FeedStart
    \/ FeedConnectOk
    \/ FeedConnectFail
    \/ FeedSendOk
    \/ FeedSendFail
    \/ FeedDelayDone
    \/ CycleRecommend
    \/ CycleNoTrade
    \/ FeedCancel
    \/ MainPrint
    \/ MainSleep

FairSpec == Init /\ [][Next]_vars /\ WF_vars(ProgramStep)

\* The steps of the feed task on a network where no connection lasts: the
\* event loop runs the task when it is ready, connect and send complete or
\* fail, the reconnect delay elapses, a cancellation is delivered, and a
\* connection the task is receiving on is eventually lost (line 81 raises).
FeedStep ==
    \/ FeedStart
    \/ FeedConnectOk
    \/ FeedConnectFail
    \/ FeedSendOk
    \/ FeedSendFail
    \/ FeedTransportError
    \/ FeedDelayDone
    \/ FeedCancel

\* the steps of the program up to the end of the first iteration of the
\* loop of main(): one cycle, one feed task
MainRunFirstCycle == cycles = 0 /\ MainRunCycle

FirstCycleNext ==
    \/ MainRunFirstCycle
    \/ CycleBackfillOk
    \/ CycleBackfillFail
    \/ FeedStart
    \/ FeedConnectOk
    \/ FeedConnectFail
    \/ FeedSendOk
    \/ FeedSendFail
    \/ FeedRecv
    \/ FeedTransportError
    \/ FeedDelayDone
    \/ CycleRecommend
    \/ CycleNoTrade
    \/ FeedCancel
    \/ MainPrint
    \/ MainDecision
    \/ MainSleep

LossySpec == Init /\ [][FirstCycleNext]_vars /\ WF_vars(FeedStep)

(***************************************************************************)
(* A free-standing AIAgent: any window configuration AIAgent.__init__      *)
(* accepts (lines 6-9 check nothing), prices added one by one, and         *)
(* get_recommendation called at any time.                                  *)
(***************************************************************************)
AgentInit ==
    /\ main_pc = "agent"
    /\ cycles = 0
    /\ main_pending = {}
    /\ signals = NoSignal
    /\ stdout = <<>>
    /\ log_errors = {}
    /\ response = NoResponse
    /\ decided = {}
    /\ broker_calls = 0
    /\ saved_results = <<>>
    /\ save_raised = FALSE
    /\ cyc_pc = "idle"
    /\ short_window \in Windows
    /\ long_window \in Windows
    /\ FreshStrategy

\* AIAgent.add_price (lines 17-19)
AgentAddPrice ==
    /\ main_pc = "agent"
    /\ Len(ai_prices) < MaxLen
    /\ \E price \in AgentPriceVals : ai_prices' = add_price(ai_prices, price)
    /\ UNCHANGED <<mainVars, cycleVars, short_window, long_window, feedVars>>

\* AIAgent.get_recommendation (lines 21-80); the result, or the exception it
\* raised, is kept together with the series it was computed from
AgentRecommend ==
    /\ main_pc = "agent"
    /\ recommendation' = get_recommendation(ai_prices, short_window, long_window)
    /\ rec_snapshot' = ai_prices
    /\ ai_prices' = prices_after_recommendation(ai_prices, long_window)
    /\ UNCHANGED <<mainVars, cyc_pc, prices, pending_trades, short_window,
                   long_window, feedVars>>

AgentNext == AgentAddPrice \/ AgentRecommend

AgentSpec == AgentInit /\ [][AgentNext]_vars

(***************************************************************************)
(* save_results (src/trading_signals.py, lines 148-162) called on its own,  *)
(* with any result a cycle of the bounded program can return and with the  *)
(* file system failing at any of its steps.                                *)
(***************************************************************************)
\* the series the engine can hold when a cycle queries it
CycleSeries ==
    UNION {[1..n -> PriceVals] : n \in BackfillLen..(BackfillLen + MaxTicks)}

\* the results generate_signals can return (lines 105-109, 132-137, 141-146)
CycleResults ==
    LET recs == {get_recommendation(ps, ShortWindow, LongWindow) : ps \in CycleSeries}
    IN  {ErrorSignal}
        \cup {NoTradeSignal(rec) : rec \in {r \in recs : r.action = "hold"}}
        \cup {TradePromptSignal(MakeTrade(trade_id, rec)) :
                 trade_id \in 1..MaxCycles,
                 rec \in {r \in recs : r.action \in {"buy", "sell"}}}

\* the step of save_results at which the file system raises OSError:
\* os.makedirs (line 153), open (line 157), file.write (line 159), or none
Faults == {"none", "makedirs", "open", "write"}

\* lines 151-160 without the try of line 150: the error reaches the caller
save_results_unguarded(fault) ==
    [raised |-> fault # "none", logged |-> FALSE, written |-> fault = "none"]

\* lines 150-162: the record is written, or the error is logged by the
\* except clause; nothing is raised either way
save_results(fault) ==
    [raised |-> FALSE, logged |-> fault # "none", written |-> fault = "none"]

SaveInit ==
    /\ main_pc = "save"
    /\ cycles = 0
    /\ main_pending = {}
    /\ signals = NoSignal
    /\ stdout = <<>>
    /\ log_errors = {}
    /\ response = NoResponse
    /\ decided = {}
    /\ broker_calls = 0
    /\ saved_results = <<>>
    /\ save_raised = FALSE
    /\ cyc_pc = "idle"
    /\ short_window = ShortWindow
    /\ long_window = LongWindow
    /\ FreshStrategy

\* one call save_results(signal_data); `signals` keeps the argument
SaveResults ==
    /\ main_pc = "save"
    /\ ~save_raised
    /\ \E signal_data \in CycleResults, fault \in Faults :
         LET o == save_results(fault)
         IN  /\ o.written => Len(saved_results) < MaxSaves
             /\ signals' = signal_data
             /\ save_raised' = o.raised
             /\ saved_results' = IF o.written
                                  THEN Append(saved_results, signal_data.type)
                                  ELSE saved_results
             /\ log_errors' = IF o.logged
                               THEN log_errors \cup {"Error saving results"}
                               ELSE log_errors
    /\ UNCHANGED <<main_pc, cycles, main_pending, stdout, response, decided,
                   broker_calls, cycleVars, agentVars, feedVars>>

SaveSpec == SaveInit /\ [][SaveResults]_vars

\* The ticks 1.0, 1.0, 1.0, 1.0, 1.1, 1.2 in tenths of the price unit; an
\* entry_price is then in tenths and a take_profit in thousandths.
ScenarioTicks == <<10, 10, 10, 10, 11, 12>>

\* AIAgent.add_price (lines 17-19) called with the next tick of the scenario
ScenarioTick ==
    /\ main_pc = "agent"
    /\ Len(ai_prices) < Len(ScenarioTicks)
    /\ ai_prices' = add_price(ai_prices, ScenarioTicks[Len(ai_prices) + 1])
    /\ UNCHANGED <<mainVars, cycleVars, short_window, long_window, feedVars>>

ScenarioNext == ScenarioTick \/ AgentRecommend

\* an AIAgent of any window configuration fed the ticks of the scenario in
\* order and queried at any time
ScenarioSpec == AgentInit /\ [][ScenarioNext]_vars

(***************************************************************************)
(* Properties of get_recommendation                                        *)
(***************************************************************************)
\* C9: for every price series shorter than long_window, get_recommendation
\* returns action hold with confidence 0.0 and neither an entry_price nor a
\* take_profit.
C9_ShortSeriesHold ==
    (recommendation # NoRec /\ Len(rec_snapshot) < long_window)
        => /\ recommendation.action = "hold"
           /\ recommendation.confidence = <<0, 1>>
           /\ recommendation.entry_price = None
           /\ recommendation.take_profit = None

\* a series of two or more prices, still shorter than the long window, has
\* been queried
C9_Witness ==
    /\ recommendation.action = "hold"
    /\ Len(rec_snapshot) >= 2
    /\ Len(rec_snapshot) < long_window

\* the sum of the last w elements of s, by index
RECURSIVE LastSum(_, _)
LastSum(s, w) == IF w = 0 THEN 0 ELSE s[Len(s) - w + 1] + LastSum(s, w - 1)

\* short_ma > long_ma and short_ma < long_ma for the means of the last
\* short_window and the last long_window prices of s, both windows within s
ShortAbove(s) ==
    /\ short_window <= Len(s)
    /\ LastSum(s, short_window) * long_window > LastSum(s, long_window) * short_window
ShortBelow(s) ==
    /\ short_window <= Len(s)
    /\ LastSum(s, short_window) * long_window < LastSum(s, long_window) * short_window

Rising(s)  == s[Len(s)] > s[Len(s) - 1]
Falling(s) == s[Len(s)] < s[Len(s) - 1]

\* C10: with at least long_window prices (windows of at least one price and
\* a series of at least two prices, as every configuration with
\* 0 < short_window < long_window implies), get_recommendation returns buy
\* exactly when short_ma > long_ma and the last price is above the previous
\* one, with entry_price the last price and take_profit the last price x 1.05;
\* sell exactly when short_ma < long_ma and the last price is below the
\* previous one, with entry_price the last price and take_profit the last
\* price x 0.95; otherwise hold with no entry_price and no take_profit; buy
\* and sell are never both applicable.
C10_DecisionRule ==
    LET s == rec_snapshot
        r == recommendation
    IN  (/\ r # NoRec
         /\ short_window >= 1
         /\ long_window >= 1
         /\ Len(s) >= 2
         /\ Len(s) >= long_window)
        => /\ r.action \in {"buy", "sell", "hold"}
           /\ (r.action = "buy") <=> (ShortAbove(s) /\ Rising(s))
           /\ (r.action = "sell") <=> (ShortBelow(s) /\ Falling(s))
           /\ ~((ShortAbove(s) /\ Rising(s)) /\ (ShortBelow(s) /\ Falling(s)))
           /\ r.action = "buy" =>
                 /\ r.entry_price = <<s[Len(s)]>>
                 /\ r.take_profit = <<s[Len(s)] * 105>>
           /\ r.action = "sell" =>
                 /\ r.entry_price = <<s[Len(s)]>>
                 /\ r.take_profit = <<s[Len(s)] * 95>>
           /\ r.action = "hold" =>
                 /\ r.entry_price = None
                 /\ r.take_profit = None

\* a sell has been returned on a series longer than the long window, the
\* short window being smaller than the long one
C10_Witness ==
    /\ recommendation.action = "sell"
    /\ 1 <= short_window
    /\ short_window < long_window
    /\ Len(rec_snapshot) > long_window

\* the window configuration is valid: 0 < short_window < long_window
ValidWindows == 0 < short_window /\ short_window < long_window

\* a rational lies in [0.5, 0.95]
InConfidenceRange(c) == ~RatLT(c, <<50, 100>>) /\ ~RatGT(c, <<95, 100>>)

\* C11 as stated: for every valid window configuration and every series of
\* positive prices, the confidence get_recommendation returns is within
\* [0.5, 0.95].
C11_ConfidenceInRange ==
    (recommendation # NoRec /\ ValidWindows)
        => /\ recommendation.confidence # None
           /\ InConfidenceRange(recommendation.confidence)

\* C11 amended: for every valid window configuration and every series of at
\* least long_window positive prices, the confidence get_recommendation
\* returns is within [0.5, 0.95]; on a shorter series it is 0.0.
C11_ConfidenceInRangeWithData ==
    (recommendation # NoRec /\ ValidWindows)
        => /\ recommendation.confidence # None
           /\ Len(rec_snapshot) >= long_window
                  => InConfidenceRange(recommendation.confidence)
           /\ Len(rec_snapshot) < long_window
                  => recommendation.confidence = ZeroConfidence

\* a recommendation on a full window whose moving averages are far enough
\* apart for the upper clamp to act
C11_Witness ==
    /\ ValidWindows
    /\ Len(rec_snapshot) >= long_window
    /\ recommendation.action \in {"buy", "sell", "hold"}
    /\ recommendation.confidence = <<95, 100>>

StrictlyIncreasing(s) == \A i \in 1..(Len(s) - 1) : s[i] < s[i + 1]

\* C12: for every valid window configuration and every strictly increasing
\* series of positive prices of length at least long_window, short_ma is
\* above long_ma and get_recommendation returns buy with entry_price the
\* latest price.
C12_IncreasingSeriesBuy ==
    LET s == rec_snapshot
    IN  (/\ recommendation # NoRec
         /\ ValidWindows
         /\ Len(s) >= long_window
         /\ StrictlyIncreasing(s))
        => /\ ShortAbove(s)
           /\ recommendation.action = "buy"
           /\ recommendation.entry_price = <<s[Len(s)]>>

\* a strictly increasing series longer than the long window has been
\* queried and the answer was buy
C12_Witness ==
    /\ ValidWindows
    /\ Len(rec_snapshot) > long_window
    /\ StrictlyIncreasing(rec_snapshot)
    /\ recommendation.action = "buy"
    /\ recommendation.entry_price = <<rec_snapshot[Len(rec_snapshot)]>>

\* C13: with short_window = 2 and long_window = 4 and the ticks 1.0, 1.0,
\* 1.0, 1.0, 1.1, 1.2 added in this order, get_recommendation after the
\* sixth tick returns buy with entry_price 1.2 and take_profit 1.26, and
\* after only the first three ticks it returns hold.
C13_ScenarioBuy ==
    /\ ai_prices = SubSeq(ScenarioTicks, 1, Len(ai_prices))
    /\ (recommendation # NoRec /\ short_window = 2 /\ long_window = 4)
          => /\ Len(rec_snapshot) = 6 =>
                   /\ recommendation.action = "buy"
                   /\ recommendation.entry_price = <<12>>
                   /\ recommendation.take_profit = <<1260>>
             /\ Len(rec_snapshot) = 3 => recommendation.action = "hold"

\* the engine with windows 2 and 4 has been queried after the sixth tick
C13_Witness ==
    /\ short_window = 2
    /\ long_window = 4
    /\ rec_snapshot = ScenarioTicks
    /\ recommendation.action = "buy"

\* C20: no engine with an invalid window configuration exists: one that has
\* been queried has 0 < short_window < long_window, the construction of any
\* other having failed.
C20_InvalidWindowsRejected == recommendation # NoRec => ValidWindows

\* C21: when a window of at least one price is larger than the series held
\* (a series of length 0 or 1, and short_window > long_window with
\* long_window <= length < short_window, included), get_recommendation
\* returns hold and raises nothing.
C21_LargeWindowHolds ==
    (/\ recommendation # NoRec
     /\ short_window >= 1
     /\ long_window >= 1
     /\ (short_window > Len(rec_snapshot) \/ long_window > Len(rec_snapshot)))
        => recommendation.action = "hold"

\* equality of two rationals with positive denominators
RatEq(a, b) == a[1] * b[2] = b[1] * a[2]

\* the engine with windows 2 and 4 holds the six ticks of the scenario
ScenarioFed == short_window = 2 /\ long_window = 4 /\ ai_prices = ScenarioTicks

\* C29 as stated: with short_window = 2 and long_window = 4, after the six
\* ticks 1.0, 1.0, 1.0, 1.0, 1.1, 1.2 the long moving average is 1.05 (10.5
\* tenths) and the short moving average is 1.15 (11.5 tenths).
C29_ScenarioAverages ==
    ScenarioFed
        => /\ RatEq(calculate_moving_average(ai_prices, long_window), <<105, 10>>)
           /\ RatEq(calculate_moving_average(ai_prices, short_window), <<115, 10>>)

\* C29 amended: with short_window = 2 and long_window = 4, after the six
\* ticks the long moving average, the mean of the last four prices 1.0, 1.0,
\* 1.1, 1.2, is 1.075 (10.75 tenths) and the short moving average, the mean
\* of the last two, is 1.15 (11.5 tenths).
C29_ScenarioAveragesLastFour ==
    ScenarioFed
        => /\ RatEq(calculate_moving_average(ai_prices, long_window), <<1075, 100>>)
           /\ RatEq(calculate_moving_average(ai_prices, short_window), <<115, 10>>)

\* the six ticks are in, and the engine has answered buy on them
C29_Witness ==
    /\ ScenarioFed
    /\ rec_snapshot = ai_prices
    /\ recommendation.action = "buy"
    /\ RatGT(calculate_moving_average(ai_prices, short_window),
             calculate_moving_average(ai_prices, long_window))

(***************************************************************************)
(* Properties of the decision step of main()                               *)
(***************************************************************************)
\* main() has just handled the decision line held in `response`
Handled == main_pc = "sleep" /\ response.kind # "none"

LastLine == stdout[Len(stdout)]

\* C1: once a decision has been applied to a proposal id, a later decision
\* (accept or skip) on the same id is rejected with an error: it is not
\* reported as applied, the proposal mapping is unchanged and no broker call
\* is made.
C1_LaterDecisionRejected ==
    (Handled /\ response.repeat)
        => /\ response.outcome = "raise"
           /\ LastLine.type \notin {"trade_skipped", "trade_result"}
           /\ main_pending = {}
           /\ broker_calls = 0

\* C6: when the decision names the prompted proposal and is accept, the
\* proposal is forwarded to the broker boundary and its outcome (executed, or
\* failed with the reason) is reported.
C6_AcceptForwarded ==
    (/\ Handled
     /\ response.kind = "dict"
     /\ response.decision = "accept"
     /\ response.id = signals.trade.id)
        => /\ broker_calls >= 1
           /\ LastLine.type = "trade_result"

\* C7: an accept for an id that is not in the proposal mapping is answered
\* with an error line to the caller, makes no broker call and leaves the
\* proposal mapping unchanged.
C7_UnknownIdRejected ==
    (/\ Handled
     /\ response.kind = "dict"
     /\ response.decision = "accept"
     /\ \A t \in main_pending : t.id # response.id)
        => /\ Len(stdout) = 2
           /\ LastLine.type = "error"
           /\ main_pending = {}
           /\ broker_calls = 0

(***************************************************************************)
(* Properties of the feed task                                             *)
\* C17: a skip decision on the proposal that was prompted is reported as
\* trade_skipped with the id given, and that is final: the id stays among
\* the skipped ones, no trade_result is ever reported, no stored trade and
\* no later prompt carries a skipped id, and the broker is never called.
C17_State ==
    /\ (Handled /\ response.kind = "dict" /\ response.decision = "skip")
          => /\ response.outcome = "skipped"
             /\ LastLine = [type |-> "trade_skipped", trade_id |-> response.id]
             /\ response.id \in 1..cycles => response.id \in decided
    /\ broker_calls = 0
    /\ \A i \in 1..Len(stdout) : stdout[i].type # "trade_result"
    /\ \A t \in pending_trades \cup main_pending : t.id \notin decided
    /\ main_pc = "input" => signals.trade.id \notin decided

C17_Step == decided \subseteq decided' /\ broker_calls' = broker_calls

C2_State ==
    /\ connects <= MAX_RECONNECT_ATTEMPTS
    /\ reconnect_attempts <= MAX_RECONNECT_ATTEMPTS
    /\ reconnect_attempts = MAX_RECONNECT_ATTEMPTS
           => feed_pc \in {"delay", "returned", "cancelled"}
    /\ feed_pc = "returned" => reconnect_attempts = MAX_RECONNECT_ATTEMPTS

C2_Step ==
    reconnect_attempts >= MAX_RECONNECT_ATTEMPTS
        => \/ /\ connects' = connects
              /\ feed_pc' \in {"delay", "returned", "cancelled"}
           \/ feed_pc' = "none"

C2_AttemptsBounded == []C2_State /\ [][C2_Step]_vars

\* the loop has given up after exactly the maximum number of attempts
C2_Witness ==
    /\ feed_pc = "returned"
    /\ connects = MAX_RECONNECT_ATTEMPTS

\* the frames the claim calls malformed: not JSON, no price field, a price
\* field that is not numeric
Malformed ==
    {m \in Messages : m.kind \in {"not_json", "price_missing", "price_non_numeric"}}

\* C3: receiving a malformed frame appends nothing to the price series and
\* does not end the connection: the task stays in the receive loop on the
\* same open connection and reconnect_attempts is unchanged.
C3_MalformedTolerated ==
    [][\A msg \in Malformed :
         FeedRecvMsg(msg)
            => /\ ai_prices' = ai_prices
               /\ feed_pc' = "receiving"
               /\ websocket' = "open"
               /\ reconnect_attempts' = reconnect_attempts]_vars

\* C5: whenever the feed task holds an established connection,
\* reconnect_attempts is 0: a successful connect resets the counter.
C5_ResetOnConnect ==
    feed_pc \in {"sending", "receiving"} => reconnect_attempts = 0

(***************************************************************************)
(* Properties of the cycle                                                 *)
(***************************************************************************)
\* C14: when the backfill has failed, the cycle returns the error result and
\* does nothing else: the feed task is never created, no connection is
\* attempted, the engine is never queried and no proposal is created or
\* prompted.
C14_BackfillFailureStops ==
    "Error fetching historical data" \in log_errors
        => /\ cyc_pc \in {"done", "idle"}
           /\ signals = ErrorSignal
           /\ feed_pc = "none"
           /\ connects = 0
           /\ live_ticks = 0
           /\ recommendation = NoRec
           /\ pending_trades = {}
           /\ main_pending = {}
           /\ main_pc # "input"
           /\ \A i \in 1..Len(stdout) : stdout[i] = [type |-> "error", trade_id |-> 0]

\* a failed backfill has ended the cycle, main() has printed the error
\* result and has gone to its sleep without asking for a decision
C14_Witness ==
    /\ main_pc = "sleep"
    /\ "Error fetching historical data" \in log_errors
    /\ stdout = <<[type |-> "error", trade_id |-> 0]>>

\* C15: the backfill completes (or fails) before live ingestion begins: while
\* fetch_historical_data has not returned, the feed task does not exist, no
\* connection has been attempted and no live tick has been appended; and
\* whenever the feed task exists (created, connecting, connected, waiting or
\* finished) the engine holds the complete backfill, followed by the live
\* ticks only.
C15_BackfillBeforeFeed ==
    /\ cyc_pc = "start"
          => /\ feed_pc = "none"
             /\ connects = 0
             /\ live_ticks = 0
    /\ (feed_pc # "none" \/ connects > 0 \/ live_ticks > 0)
          => /\ cyc_pc \notin {"idle", "start"}
             /\ Len(prices) = BackfillLen + live_ticks
             /\ Len(ai_prices) = BackfillLen + live_ticks
             /\ SubSeq(ai_prices, 1, BackfillLen) = SubSeq(prices, 1, BackfillLen)

\* a live tick has been appended on an open connection, after the backfill
C15_Witness ==
    /\ feed_pc = "receiving"
    /\ websocket = "open"
    /\ live_ticks = 1
    /\ Len(ai_prices) = BackfillLen + 1

\* the feed task has ended: by `return False` (line 95) or by cancellation
FeedEnded == feed_pc \in {"returned", "cancelled"}

\* C16: where every connection attempt fails or every established connection
\* is lost, the feed loop terminates: a feed task that was created ends, and
\* one the cycle is waiting for ends by returning False.  It returns only
\* after MAX_RECONNECT_ATTEMPTS failures, having logged that the maximum was
\* reached, holding no open connection, and no exception leaves it: the
\* cycle that awaits it goes on to its result.
C16_State ==
    /\ feed_pc = "returned"
          => /\ reconnect_attempts = MAX_RECONNECT_ATTEMPTS
             /\ "Max reconnection attempts reached" \in log_errors
             /\ websocket # "open"
    /\ cyc_pc # "raised"

C16_LoopTerminates ==
    /\ []C16_State
    /\ (feed_pc = "created") ~> FeedEnded
    /\ (cyc_pc = "await_feed") ~> (feed_pc = "returned")

\* every one of the attempts failed to connect, and the loop has returned
C16_Witness ==
    /\ feed_pc = "returned"
    /\ connects = MAX_RECONNECT_ATTEMPTS
    /\ websocket = "none"
    /\ cyc_pc = "await_feed"

\* C18: a cycle whose backfill succeeded and which has returned has returned
\* trade_prompt exactly when the recommendation's action is buy or sell;
\* then exactly one trade was created, the one of the prompt, its side
\* (BUY for buy, SELL for sell), entry_price, take_profit, confidence and
\* reasoning being those of the recommendation; otherwise it has returned
\* no_trade with the recommendation's reasoning as message and created no
\* trade.
C18_PromptIffBuyOrSell ==
    LET rec == recommendation
        trade == signals.trade
    IN  (cyc_pc = "done" /\ signals.type # "error")
        => /\ rec.action \in {"buy", "sell", "hold"}
           /\ signals.type \in {"trade_prompt", "no_trade"}
           /\ (signals.type = "trade_prompt") <=> (rec.action \in {"buy", "sell"})
           /\ signals.type = "trade_prompt"
                 => /\ pending_trades = {trade}
                    /\ (trade.type = "BUY") <=> (rec.action = "buy")
                    /\ (trade.type = "SELL") <=> (rec.action = "sell")
                    /\ trade.entry_price = rec.entry_price
                    /\ trade.entry_price # None
                    /\ trade.take_profit = rec.take_profit
                    /\ trade.confidence = rec.confidence
                    /\ trade.reasoning = rec.reasoning
           /\ signals.type = "no_trade"
                 => /\ signals.message = rec.reasoning
                    /\ signals.trade = NoTrade
                    /\ pending_trades = {}

\* a cycle has returned the prompt of a sell
C18_Witness ==
    /\ cyc_pc = "done"
    /\ signals.type = "trade_prompt"
    /\ recommendation.action = "sell"
    /\ signals.trade.type = "SELL"
    /\ pending_trades = {signals.trade}

\* C19: when main() asks for the decision on a trade_prompt, the trade with
\* the prompt's id is held in the pending_trades of the strategy object the
\* decision step uses, so a decision with that id finds it.
C19_PromptedTradeStored ==
    main_pc = "input"
        => \E t \in main_pending : t.id = signals.trade.id

\* C22: a feed task cancelled while it is suspended (in connect, send, recv
\* or the reconnect delay) ends at once, with its connection closed; the
\* cancellation does not pass through the except clause: reconnect_attempts
\* is not incremented, no WebSocket error is logged and no further connect
\* is made; a cancelled task takes no step of its own any more.
C22_State == feed_pc = "cancelled" => websocket # "open"

C22_Step ==
    /\ FeedCancel
          => /\ feed_pc' = "cancelled"
             /\ websocket' # "open"
             /\ reconnect_attempts' = reconnect_attempts
             /\ connects' = connects
             /\ log_errors' = log_errors
             /\ ai_prices' = ai_prices
    /\ feed_pc = "cancelled"
          => /\ feed_pc' \in {"cancelled", "none"}
             /\ feed_pc' = "cancelled"
                   => /\ reconnect_attempts' = reconnect_attempts
                      /\ connects' = connects
                      /\ websocket' = websocket

C22_CancelEndsFeed == []C22_State /\ [][C22_Step]_vars

\* a task cancelled while receiving on an open connection has ended with
\* the connection closed and its counter as it was
C22_Witness ==
    /\ feed_pc = "cancelled"
    /\ websocket = "closed"
    /\ last_msg.kind = "price"
    /\ subscribes = 1
    /\ reconnect_attempts = 0

\* C23: every result the main loop has produced has been recorded by
\* save_results exactly once: when main() is past its print, the number of
\* records written equals the number of cycles completed.
C23_OneRecordPerCycle ==
    main_pc \in {"input", "sleep", "loop"} => Len(saved_results) = cycles

\* C24: save_results never raises to its caller: a failure of os.makedirs,
\* open or file.write inside it is logged and nothing else happens, no
\* record being counted as written; no cycle state and no trade changes.
C24_State ==
    /\ ~save_raised
    /\ pending_trades = {}
    /\ main_pending = {}
    /\ cyc_pc = "idle"

C24_Step ==
    /\ \/ saved_results' = saved_results
       \/ saved_results' = Append(saved_results, signals'.type)
    /\ saved_results' = saved_results
          => (signals' # signals => "Error saving results" \in log_errors')
    /\ saved_results' # saved_results => log_errors' = log_errors

C24_SaveNeverRaises == []C24_State /\ [][C24_Step]_vars

\* a write has failed after an earlier record was written: the failure is
\* in the log and the call returned
C24_Witness ==
    /\ main_pc = "save"
    /\ Len(saved_results) = 1
    /\ "Error saving results" \in log_errors
    /\ ~save_raised

\* the frames whose price is zero, negative or absent
NonPositive ==
    {m \in Messages : m.kind = "price_missing" \/ (m.kind = "price" /\ m.price <= 0)}

\* C25: every price the feed task has appended to the engine's series is
\* strictly positive, and receiving a frame whose price is zero, negative
\* or absent changes neither the series nor the connection nor
\* reconnect_attempts: the task stays in its receive loop.
C25_State ==
    \A i \in (BackfillLen + 1)..Len(ai_prices) : ai_prices[i] > 0

C25_Step ==
    \A msg \in NonPositive :
       FeedRecvMsg(msg)
          => /\ ai_prices' = ai_prices
             /\ prices' = prices
             /\ feed_pc' = "receiving"
             /\ websocket' = websocket
             /\ reconnect_attempts' = reconnect_attempts
             /\ log_errors' = log_errors

C25_LivePricesPositive == []C25_State /\ [][C25_Step]_vars

\* a frame with a negative price has just been received and dropped on a
\* connection that had delivered a tick before
C25_Witness ==
    /\ feed_pc = "receiving"
    /\ websocket = "open"
    /\ last_msg = [kind |-> "price", price |-> -1]
    /\ live_ticks = 1
    /\ Len(ai_prices) = BackfillLen + 1

\* C26: the engine's series changes only where prices are ingested, in the
\* backfill and on a live tick (and when the engine is dropped with its
\* strategy object at the end of asyncio.run); the query of the cycle, the
\* return of its result and the decision step of main() leave it as it is.
C26_Step ==
    /\ (CycleRecommend \/ CycleNoTrade \/ MainDecision \/ MainSleep)
          => ai_prices' = ai_prices
    /\ ai_prices' # ai_prices
          => \/ CycleBackfillOk
             \/ CycleBackfillFail
             \/ FeedRecv
             \/ MainPrint /\ ai_prices' = <<>>

C26_SeriesFrame == [][C26_Step]_vars

\* the engine was queried after a live tick and its series is the one the
\* query saw
C26_Witness ==
    /\ recommendation # NoRec
    /\ live_ticks = 1
    /\ Len(rec_snapshot) = BackfillLen + 1
    /\ ai_prices = rec_snapshot

IsPrefix(s, t) == Len(s) <= Len(t) /\ SubSeq(t, 1, Len(s)) = s

\* C27: the engine's series is append-only: in every step of the program
\* (backfill, live tick, query or any other) the series before the step is
\* a prefix of the series after it, so no entry is ever dropped or changed
\* and the last long_window entries stay; the only exception is the engine
\* itself being dropped with its strategy object when asyncio.run returns.
C27_Step ==
    \/ IsPrefix(ai_prices, ai_prices')
    \/ MainPrint /\ ai_prices' = <<>>

C27_AppendOnly == [][C27_Step]_vars

\* the series holds the backfill followed by a live tick, and the feed task
\* has run to its end since
C27_Witness ==
    /\ feed_pc = "returned"
    /\ cyc_pc = "await_feed"
    /\ live_ticks = 1
    /\ Len(ai_prices) = BackfillLen + 1
    /\ IsPrefix(rec_snapshot, ai_prices)

\* C28: on every established connection exactly one subscribeProgram message
\* is sent, before the first recv: while the task is about to send, none
\* has been sent on the connection; while it receives, exactly one has;
\* frames are received only after it; a message is sent only from the send
\* step, and every new connection starts with none sent.
C28_State ==
    /\ subscribes <= 1
    /\ feed_pc = "sending" => (websocket = "open" /\ subscribes = 0)
    /\ feed_pc = "receiving" => (websocket = "open" /\ subscribes = 1)

C28_Step ==
    /\ FeedRecv => (subscribes = 1 /\ subscribes' = 1)
    /\ subscribes' > subscribes => (feed_pc = "sending" /\ subscribes' = 1)
    /\ FeedConnectOk => subscribes' = 0

C28_OneSubscribe == []C28_State /\ [][C28_Step]_vars

\* the task receives on its second connection, having subscribed once on it
C28_Witness ==
    /\ feed_pc = "receiving"
    /\ connects = 2
    /\ reconnect_attempts = 1
    /\ subscribes = 1

\* C30: the recommendation of a cycle is computed from one snapshot of the
\* series: the query step appends no tick, its answer is the decision rule
\* applied to the series as it stood at the query (short and long averages
\* and last two prices all taken from it), ticks arriving later only extend
\* that series, and the entry_price of the recommendation and of the trade
\* built from it is the last price of the snapshot.
C30_State ==
    LET s == rec_snapshot
        r == recommendation
    IN  r # NoRec
        => /\ IsPrefix(s, ai_prices)
           /\ Len(s) >= 2
           /\ (r.action = "buy") <=> (ShortAbove(s) /\ Rising(s))
           /\ (r.action = "sell") <=> (ShortBelow(s) /\ Falling(s))
           /\ r.action \in {"buy", "sell"}
                 => /\ r.entry_price = <<s[Len(s)]>>
                    /\ cyc_pc = "done" => signals.trade.entry_price = <<s[Len(s)]>>

C30_Step ==
    CycleRecommend
        => /\ rec_snapshot' = ai_prices
           /\ ai_prices' = ai_prices
           /\ live_ticks' = live_ticks

C30_SingleSnapshot == []C30_State /\ [][C30_Step]_vars

\* a trade was prompted on a series that ends in a live tick
C30_Witness ==
    /\ signals.type = "trade_prompt"
    /\ cyc_pc = "done"
    /\ live_ticks = 1
    /\ Len(rec_snapshot) = BackfillLen + 1
    /\ signals.trade.entry_price = <<rec_snapshot[Len(rec_snapshot)]>>

\* the backfill of the running cycle raised and the cycle returned the
\* error result
BackfillFailed == cyc_pc = "done" /\ signals.type = "error"

\* C31: within one cycle whose backfill completed, the strategy's own price
\* list and the Indicator Engine's price series are equal as sequences in
\* every state: after the backfill and after every live tick, whether the
\* tick was appended or dropped.
C31_SeriesEqual == ~BackfillFailed => prices = ai_prices

\* a valid tick was appended after the backfill and a later frame was dropped
C31_Witness ==
    /\ cyc_pc \in {"warmup", "await_feed", "done"}
    /\ live_ticks = 1
    /\ Len(prices) = BackfillLen + 1
    /\ HandleMessage(last_msg).outcome = "ignore"
    /\ prices = ai_prices

\* C32: the Indicator Engine is queried exactly once per cycle, at the end
\* of the warm-up: no recommendation exists before, and the one obtained is
\* never replaced while the cycle lasts.  A trade_prompt result is returned
\* by the query step itself, which leaves the feed task as it is (neither
\* awaited nor cancelled).  A no_trade result is returned only once the feed
\* task has returned, and its message is the reasoning of the recommendation
\* obtained at the query, whatever ticks were ingested while waiting.
C32_State ==
    /\ cyc_pc \in {"start", "warmup"} => recommendation = NoRec
    /\ \/ cyc_pc = "await_feed"
       \/ cyc_pc = "done" /\ signals.type \in {"trade_prompt", "no_trade"}
       => /\ recommendation # NoRec
          /\ recommendation =
                 get_recommendation(rec_snapshot, short_window, long_window)
    /\ cyc_pc = "done" /\ signals.type = "no_trade"
       => /\ feed_pc = "returned"
          /\ recommendation.action = "hold"
          /\ signals.message = recommendation.reasoning

C32_Step ==
    /\ recommendation' # recommendation \/ rec_snapshot' # rec_snapshot
       => \/ CycleRecommend /\ recommendation = NoRec
          \/ MainPrint /\ recommendation' = NoRec
    /\ CycleRecommend
       => /\ cyc_pc = "warmup"
          /\ UNCHANGED feedVars
          /\ (cyc_pc' = "done") <=> (recommendation'.action \in {"buy", "sell"})
          /\ cyc_pc' = "done" => signals'.type = "trade_prompt"
          /\ cyc_pc' # "done" => cyc_pc' = "await_feed" /\ signals' = signals
    /\ CycleNoTrade
       => /\ feed_pc = "returned"
          /\ UNCHANGED <<recommendation, rec_snapshot>>
          /\ signals'.message = recommendation.reasoning

C32_QueryOnce == []C32_State /\ [][C32_Step]_vars

\* a no_trade result was returned after a tick arrived during the wait on
\* which a fresh query would have answered otherwise
C32_Witness ==
    /\ cyc_pc = "done"
    /\ signals.type = "no_trade"
    /\ Len(ai_prices) > Len(rec_snapshot)
    /\ get_recommendation(ai_prices, short_window, long_window).action # "hold"

\* C33: a decision line that is a JSON object whose decision is anything
\* other than accept (skip, absent, or another value) is reported as
\* trade_skipped with the id given; the step makes no broker call, logs no
\* error and leaves the pending-trades mapping of main()'s strategy as it is.
C33_State ==
    (Handled /\ response.kind = "dict" /\ response.decision # "accept")
        => /\ response.outcome = "skipped"
           /\ LastLine = [type |-> "trade_skipped", trade_id |-> response.id]
           /\ broker_calls = 0
           /\ main_pending = {}

C33_Step ==
    MainDecision
        => /\ UNCHANGED <<main_pending, broker_calls>>
           /\ (response'.kind = "dict" /\ response'.decision # "accept")
                 => /\ stdout' = Append(stdout, [type |-> "trade_skipped",
                                                 trade_id |-> response'.id])
                    /\ UNCHANGED log_errors

C33_NonAcceptSkipped == []C33_State /\ [][C33_Step]_vars

\* an object with neither a decision nor an id has been answered with
\* trade_skipped
C33_Witness ==
    /\ Handled
    /\ response.kind = "dict"
    /\ response.decision = "missing"
    /\ response.id = 0
    /\ LastLine = [type |-> "trade_skipped", trade_id |-> 0]
    /\ main_pending = {}
    /\ broker_calls = 0

\* C34: no error ends the main loop.  An exception raised by a generation
\* cycle is caught and logged as "Error in main loop"; one raised while the
\* decision is read, parsed or applied is caught and logged as "Error
\* processing trade response", with nothing printed.  Either way main() is
\* then in a sleep inside its loop, from which its only step is back to the
\* top of the loop, where its only step starts the next cycle.
C34_State ==
    /\ main_pc \in {"loop", "running", "input", "sleep"}
    /\ main_pc = "sleep" => ENABLED MainSleep
    /\ main_pc = "loop" /\ cycles < MaxCycles => ENABLED MainRunCycle
    /\ Handled /\ response.outcome = "raise"
          => /\ "Error processing trade response" \in log_errors
             /\ LastLine.type = "trade_prompt"

C34_Step ==
    /\ MainPrint /\ cyc_pc = "raised"
          => /\ main_pc' = "sleep"
             /\ "Error in main loop" \in log_errors'
    /\ MainDecision /\ response'.outcome = "raise"
          => /\ main_pc' = "sleep"
             /\ "Error processing trade response" \in log_errors'
             /\ stdout' = stdout
    /\ main_pc = "sleep" => MainSleep /\ main_pc' = "loop"
    /\ main_pc = "loop" => MainRunCycle /\ main_pc' = "running" /\ cycles' = cycles + 1

C34_LoopSurvivesErrors == []C34_State /\ [][C34_Step]_vars

\* the accept of the first cycle's proposal raised, the error was logged,
\* and main() is back at the top of its loop with the next cycle to start
C34_Witness ==
    /\ cycles = 1
    /\ main_pc = "loop"
    /\ response.decision = "accept"
    /\ response.outcome = "raise"
    /\ log_errors = {"Error processing trade response"}
    /\ ENABLED MainRunCycle

\* C4: every call of generate_signals eventually returns, whatever the feed
\* does.
C4_CycleReturns == (cyc_pc = "start") ~> (cyc_pc \in {"done", "raised"})

ResultTypes == {"trade_prompt", "no_trade", "error"}

\* C8: a cycle that has ended has ended with a result of type trade_prompt,
\* no_trade or error, never with an exception; a cycle that has not ended
\* has no result; and the result of a cycle, once set, is the one main()
\* prints and stays the same until the next cycle starts.
C8_State ==
    /\ cyc_pc # "raised"
    /\ cyc_pc = "done" => signals.type \in ResultTypes
    /\ cyc_pc \in {"start", "warmup", "await_feed"} => signals = NoSignal
    /\ (main_pc \in {"input", "sleep"} /\ cycles > 0)
           => /\ Len(stdout) >= 1
              /\ stdout[1].type = signals.type
              /\ \A i \in 2..Len(stdout) : stdout[i].type \notin ResultTypes

C8_Step ==
    signals # NoSignal => (signals' = signals \/ cycles' = cycles + 1)

C8_OneResult == []C8_State /\ [][C8_Step]_vars

\* a cycle whose feed task was exhausted has ended with no_trade, and that
\* result has been printed
C8_Witness ==
    /\ main_pc = "sleep"
    /\ "Max reconnection attempts reached" \in log_errors
    /\ signals.type = "no_trade"
    /\ stdout = <<[type |-> "no_trade", trade_id |-> 0]>>

====
